---- MODULE Spec2Model ----
(***************************************************************************)
(* Model of src/screen.py: the Streamlit dashboard "Sell-in/Sell-out -     *)
(* Grupos".  load_data reads the pickled table, calculate_cumsums derives  *)
(* five cumulative columns by a chain of sort_values + groupby().cumsum()  *)
(* passes, and main filters the table by the sidebar selection, calls      *)
(* calculate_cumsums on the filtered frame and draws a chart and a table.  *)
(*                                                                         *)
(* A DataFrame is a sequence of rows; a row is a record whose fields are   *)
(* the columns plus `index`, the pandas index label of the row.  Column    *)
(* names that are not TLA+ identifiers are spelled without accents,        *)
(* spaces and hyphens ('Descrição' -> Descricao, 'Sell-in' -> SellIn,      *)
(* 'Estoque por Grupo' -> EstoquePorGrupo, ...).  The columns 'CNPJ' and   *)
(* 'Produto' are carried by the code and read by nothing; they are left    *)
(* out of the rows.  A date is the ordinal of its month (12*year + month): *)
(* every mes_ano_dt is the first day of a month.                           *)
(*                                                                         *)
(* Streamlit runs the script from top to bottom on every interaction, so   *)
(* one action is one whole run of main.  The body of the 'All'/'All' chart *)
(* branch is stored with an extra level of indentation from line 199 on;   *)
(* the model reads lines 191-247 as the body of the if of line 190 and     *)
(* lines 249-386 as its else.                                              *)
(*                                                                         *)
(* The products, groups, months and quantities are small fixed sets; the   *)
(* numbers of rows are the bounds.                                         *)
(***************************************************************************)
EXTENDS Integers, Sequences, FiniteSets, TLC

VARIABLES
    pkl,        \* the unpickled input: [schema, rows] (raw column names)
    df,         \* main's base table, as load_data returned it
    sel,        \* the sidebar widgets: produto, farmacia, start_date, end_date
    arg,        \* the frame handed to calculate_cumsums, as it was before the call
    heap,       \* the frame objects of the last calculate_cumsums call
    outcome,    \* how the last run ended
    drawn       \* what the last run put on the page

vars == <<pkl, df, sel, arg, heap, outcome, drawn>>

---------------------------------------------------------------------------
(* Bounds and input domains *)

\* Largest frame handed directly to calculate_cumsums (SpecCumsums).
MaxRows == 3

\* Largest well-formed pickled table loaded by main (Spec).
MaxRowsMain == 2

\* Largest pickled table with a defective schema loaded by main (Spec).
MaxRowsDefective == 1

\* 'produto_descricao' and 'cliente_nome' values; StrOrd is their order as
\* Python strings ("A" < "B", "X" < "Y").
Produtos == {"A", "B"}

Grupos == {"X", "Y"}

StrOrd == [A |-> 1, B |-> 2, X |-> 3, Y |-> 4]

\* 'mes_ano' strings "12-2023" and "01-2024", as <<month, year>>.
MesesAno == {<<12, 2023>>, <<1, 2024>>}

\* (sell-in, sell-out, difference) of one row; the difference is computed
\* upstream as sell-in minus sell-out.
Movimentos ==
    { [qtd_vendida_para_farmacia |-> 2, qtd_vendida_para_cliente |-> 0, diferenca |-> 2],
      [qtd_vendida_para_farmacia |-> 0, qtd_vendida_para_cliente |-> 1, diferenca |-> -1] }

---------------------------------------------------------------------------
(* pandas primitives *)

\* pd.to_datetime(s, format='%m-%Y').dt.date: the first day of the month.
ToDate(mes_ano) == 12 * mes_ano[2] + mes_ano[1]

Datas == { ToDate(m) : m \in MesesAno }

\* The value a column contributes to a sort key: strings by their order,
\* dates and numbers by value.
KeyVal(r, col) == IF col \in {"Grupo", "Descricao"} THEN StrOrd[r[col]] ELSE r[col]

RECURSIVE LexLess(_, _, _)
\* r sorts strictly before q on the columns `by`, compared left to right.
LexLess(r, q, by) ==
    IF by = <<>> THEN FALSE
    ELSE LET a == KeyVal(r, Head(by))
             b == KeyVal(q, Head(by))
         IN  IF a < b THEN TRUE
             ELSE IF a > b THEN FALSE
             ELSE LexLess(r, q, Tail(by))

RECURSIVE InsertStable(_, _, _)
\* r placed after every row that does not sort after it.
InsertStable(sorted, r, by) ==
    IF sorted = <<>> THEN <<r>>
    ELSE IF LexLess(r, Head(sorted), by) THEN <<r>> \o sorted
    ELSE <<Head(sorted)>> \o InsertStable(Tail(sorted), r, by)

RECURSIVE SortPrefix(_, _, _)
SortPrefix(frame, n, by) ==
    IF n = 0 THEN <<>>
    ELSE InsertStable(SortPrefix(frame, n - 1, by), frame[n], by)

\* A sort that places a row before the rows it ties with (not stable).
SortValuesUnstable(frame, by) ==
    LET rev == [i \in 1..Len(frame) |-> frame[Len(frame) + 1 - i]]
    IN  SortPrefix(rev, Len(rev), by)

\* df.sort_values(by) on two or more columns: pandas sorts by the lexsort of
\* the columns, which keeps tied rows in their current order.
sort_values(frame, by) ==
    LET f == frame
    IN  SortPrefix(f, Len(f), by)

SameKey(r, q, by) == \A k \in 1..Len(by) : r[by[k]] = q[by[k]]

RECURSIVE RunningSum(_, _, _, _, _)
\* Sum of column col over the rows 1..j of frame in the group of row i.
RunningSum(frame, by, col, i, j) ==
    IF j = 0 THEN 0
    ELSE RunningSum(frame, by, col, i, j - 1)
         + (IF SameKey(frame[j], frame[i], by) THEN frame[j][col] ELSE 0)

\* A cumulative sum taken from the last row of the group backwards.
GroupbyCumsumReversed(frame, by, col) ==
    [i \in 1..Len(frame) |->
        RunningSum(frame, by, col, i, Len(frame)) - RunningSum(frame, by, col, i, i - 1)]

\* A cumulative sum that ignores the grouping.
CumsumUngrouped(frame, by, col) ==
    [i \in 1..Len(frame) |-> RunningSum(frame, <<>>, col, i, i)]

\* df.groupby(by)[col].cumsum(): for each row, the sum of col over the rows
\* of its group up to and including it, in the frame's current order.
GroupbyCumsum(frame, by, col) ==
    LET f == frame
    IN  [i \in 1..Len(f) |-> RunningSum(f, by, col, i, i)]

\* A column assignment that also drops the last row of the frame.
SetColumnDropping(frame, name, series) ==
    [i \in 1..(IF Len(frame) > 1 THEN Len(frame) - 1 ELSE Len(frame)) |->
        (name :> series[i]) @@ frame[i]]

\* df[name] = series, the series being aligned with the frame's own rows.
SetColumn(frame, name, series) ==
    LET f == frame
        s == series
    IN  [i \in 1..Len(f) |-> (name :> s[i]) @@ f[i]]

---------------------------------------------------------------------------
(* calculate_cumsums *)

\* Frame objects live in a store (a sequence); a reference is a position in
\* it.  copy() and sort_values() make a new object, a column assignment
\* changes the object the local name refers to.
DfCopy(h, ref) == Append(h, h[ref])

DfSortValues(h, ref, by) ==
    LET store == h
    IN  Append(store, sort_values(store[ref], by))

DfAssign(h, ref, name, by, col) ==
    LET store == h
        f == store[ref]
    IN  [store EXCEPT ![ref] = SetColumn(f, name, GroupbyCumsum(f, by, col))]

\* The sort keys of the three kinds of pass.
ByPeriodoOnly == <<"mes_ano_dt">>

ByProduto == <<"Descricao", "mes_ano_dt">>

ByGrupo == <<"Grupo", "mes_ano_dt">>

ByProdutoGrupo == <<"Descricao", "Grupo", "mes_ano_dt">>

\* The store after calculate_cumsums(df): object 1 is the caller's frame,
\* 2 the copy, 3..7 the frames of the five passes, 7 the frame returned.
calculate_cumsums(frame) ==
    LET h1  == DfCopy(<<frame>>, 1)
        h2  == DfSortValues(h1, 2, ByProduto)
        h3  == DfAssign(h2, 3, "EstoqueTotalPorProduto", <<"Descricao">>, "Diferenca")
        h4  == DfSortValues(h3, 3, ByGrupo)
        h5  == DfAssign(h4, 4, "EstoquePorGrupo", <<"Grupo">>, "Diferenca")
        h6  == DfSortValues(h5, 4, ByGrupo)
        h7  == DfAssign(h6, 5, "SellInPorGrupo", <<"Grupo">>, "SellIn")
        h8  == DfSortValues(h7, 5, ByGrupo)
        h9  == DfAssign(h8, 6, "SellOutPorGrupo", <<"Grupo">>, "SellOut")
        h10 == DfSortValues(h9, 6, ByProdutoGrupo)
        h11 == DfAssign(h10, 7, "EstoquePorProdutoEGrupo", <<"Descricao", "Grupo">>, "Diferenca")
    IN  h11

\* Positions in the store of a finished call.
RefArg == 1
RefPorProduto == 3
RefPorGrupo == 4
RefSellIn == 5
RefSellOut == 6
RefRet == 7

---------------------------------------------------------------------------
(* load_data *)

Tables(n) == UNION { [1..k -> [Grupo : Grupos, Descricao : Produtos,
                               mes_ano : MesesAno, mov : Movimentos]] : k \in 0..n }

\* The rows of a pickled table under their raw column names.
RawRows(t) ==
    [i \in 1..Len(t) |->
        [cliente_nome |-> t[i].Grupo,
         produto_descricao |-> t[i].Descricao,
         qtd_vendida_para_farmacia |-> t[i].mov.qtd_vendida_para_farmacia,
         qtd_vendida_para_cliente |-> t[i].mov.qtd_vendida_para_cliente,
         diferenca |-> t[i].mov.diferenca,
         mes_ano |-> t[i].mes_ano]]

\* What load_data may find: a well-formed table ("ok"); no local file and no
\* upload ("no_file"); a table lacking one of the columns read at lines 40
\* to 52 ("missing_column"); a 'mes_ano' column that is not '%m-%Y' text
\* ("bad_mes_ano"); another column holding values of the wrong type
\* ("bad_type").
Schemas == {"ok", "no_file", "missing_column", "bad_mes_ano", "bad_type"}

\* The files a session may start from.  A wrongly typed column shows in a
\* value, so a "bad_type" table has at least one row.
PklFiles ==
    { [schema |-> "ok", rows |-> RawRows(t)] : t \in Tables(MaxRowsMain) }
    \cup { [schema |-> s, rows |-> RawRows(t)] :
              s \in {"missing_column", "bad_mes_ano"}, t \in Tables(MaxRowsDefective) }
    \cup { [schema |-> "bad_type", rows |-> RawRows(t)] :
              t \in { u \in Tables(MaxRowsDefective) : Len(u) >= 1 } }
    \cup { [schema |-> "no_file", rows |-> <<>>] }

\* The date conversion and the column selection and renaming of lines 40-64;
\* the index labels are the positions in the pickled table.
RenameColumns(rows) ==
    [i \in 1..Len(rows) |->
        [index |-> i,
         Grupo |-> rows[i].cliente_nome,
         Descricao |-> rows[i].produto_descricao,
         SellIn |-> rows[i].qtd_vendida_para_farmacia,
         SellOut |-> rows[i].qtd_vendida_para_cliente,
         Diferenca |-> rows[i].diferenca,
         mes_ano_dt |-> ToDate(rows[i].mes_ano)]]

\* A load_data that checks nothing and returns whatever was unpickled.
LoadDataUnchecked(p) ==
    [frame |-> RenameColumns(p.rows), msgs |-> {}]

\* load_data: the frame returned and the messages put on the page.  A
\* missing column (KeyError) and an unparsable 'mes_ano' (ValueError) are
\* caught at line 71; the types of the other columns are not looked at.
load_data(p) ==
    CASE p.schema = "no_file" ->
            [frame |-> <<>>, msgs |-> {"warning_no_file"}]
      [] p.schema \in {"missing_column", "bad_mes_ano"} ->
            [frame |-> <<>>, msgs |-> {"error_load"}]
      [] OTHER ->
            [frame |-> RenameColumns(p.rows), msgs |-> {}]

---------------------------------------------------------------------------
(* main *)

Unique(frame, col) == { frame[i][col] : i \in 1..Len(frame) }

MinDate(frame) ==
    CHOOSE d \in Unique(frame, "mes_ano_dt") : \A e \in Unique(frame, "mes_ano_dt") : d <= e

MaxDate(frame) ==
    CHOOSE d \in Unique(frame, "mes_ano_dt") : \A e \in Unique(frame, "mes_ano_dt") : d >= e

NoSel == [produto |-> "All", farmacia |-> "All", start_date |-> 0, end_date |-> 0]

\* The widgets' values on the first run: the whole period, 'All', 'All'.
DefaultSel(frame) ==
    [produto |-> "All", farmacia |-> "All",
     start_date |-> MinDate(frame), end_date |-> MaxDate(frame)]

\* A filter that keeps every product and group and looks at the dates only.
ApplyFiltersDateOnly(frame, s) ==
    SelectSeq(frame, LAMBDA r : r.mes_ano_dt >= s.start_date /\ r.mes_ano_dt <= s.end_date)

\* Lines 160-173: the rows of the base table that match the selection, in
\* the base table's order and with its index labels.
ApplyFilters(frame, s) ==
    LET f0 == frame
        f1 == IF s.farmacia # "All"
              THEN SelectSeq(f0, LAMBDA r : r.Grupo = s.farmacia) ELSE f0
        f2 == IF s.produto # "All"
              THEN SelectSeq(f1, LAMBDA r : r.Descricao = s.produto) ELSE f1
    IN  SelectSeq(f2, LAMBDA r : r.mes_ano_dt >= s.start_date /\ r.mes_ano_dt <= s.end_date)

\* A chart section whose 'All'/'All' branch first builds its frame.
ChartSectionGeralDefined(s) ==
    IF s.farmacia = "All" /\ s.produto = "All"
    THEN [error |-> "none", charts |-> {"chart_geral"}]
    ELSE IF s.produto = "All" /\ s.farmacia # "All"
    THEN [error |-> "none", charts |-> {"chart_grupo"}]
    ELSE IF s.produto # "All" /\ s.farmacia # "All"
    THEN [error |-> "none", charts |-> {"chart_produto_grupo"}]
    ELSE [error |-> "none", charts |-> {}]

\* Lines 190-386: the chart drawn for the selection.  The 'All'/'All' branch
\* reads df_grafico, a local that only the else branch assigns.
ChartSection(s) ==
    IF s.farmacia = "All" /\ s.produto = "All"
    THEN [error |-> "NameError", charts |-> {}]
    ELSE IF s.produto = "All" /\ s.farmacia # "All"
    THEN [error |-> "none", charts |-> {"chart_grupo"}]
    ELSE IF s.produto # "All" /\ s.farmacia # "All"
    THEN [error |-> "none", charts |-> {"chart_produto_grupo"}]
    ELSE [error |-> "none", charts |-> {}]

\* An emptiness test that never answers yes.
NeverEmpty(frame) == FALSE

\* df.empty (lines 116 and 175): the frame has no row.
IsEmpty(frame) == Len(frame) = 0

\* One run of main with the widgets at s.  raises: whether pandas rejects
\* the wrongly typed column inside calculate_cumsums (it depends on the
\* column and on the values; only a "bad_type" table can raise).
MainRun(p, s, raises) ==
    LET ld == load_data(p)
        base == ld.frame
        filtered == ApplyFilters(base, s)
        store == calculate_cumsums(filtered)
        chart == ChartSection(s)
    IN  IF IsEmpty(base)
        THEN [df |-> base, arg |-> <<>>, heap |-> <<>>, outcome |-> "no_data",
              drawn |-> ld.msgs \cup {"warning_no_data"}]
        ELSE IF IsEmpty(filtered)
        THEN [df |-> base, arg |-> <<>>, heap |-> <<>>, outcome |-> "no_match",
              drawn |-> {"warning_no_match"}]
        ELSE IF raises
        THEN [df |-> base, arg |-> filtered, heap |-> <<filtered>>, outcome |-> "TypeError",
              drawn |-> {}]
        ELSE IF chart.error # "none"
        THEN [df |-> base, arg |-> filtered, heap |-> store, outcome |-> chart.error,
              drawn |-> {}]
        ELSE [df |-> base, arg |-> filtered, heap |-> store, outcome |-> "rendered",
              drawn |-> chart.charts \cup {"table", "summary"}]

---------------------------------------------------------------------------
(* The dashboard: one action per script run *)

Init ==
    /\ pkl \in PklFiles
    /\ df = <<>>
    /\ sel = NoSel
    /\ arg = <<>>
    /\ heap = <<>>
    /\ outcome = "start"
    /\ drawn = {}

\* pandas may reject a wrongly typed column inside calculate_cumsums or
\* compute with it, depending on the column and its values.
MayRaise == IF pkl.schema = "bad_type" THEN BOOLEAN ELSE {FALSE}

Rerun(s, raises) ==
    LET r == MainRun(pkl, s, raises)
    IN  /\ df' = r.df
        /\ sel' = s
        /\ arg' = r.arg
        /\ heap' = r.heap
        /\ outcome' = r.outcome
        /\ drawn' = r.drawn
        /\ UNCHANGED pkl

\* The sidebar exists once a run got past line 118.
WidgetsShown == outcome \notin {"start", "no_data"}

\* The first run of a session: every widget at its default.
FirstRun ==
    /\ outcome = "start"
    /\ \E raises \in MayRaise :
          LET base == load_data(pkl).frame
          IN  Rerun(IF base = <<>> THEN NoSel ELSE DefaultSel(base), raises)

ChangeProduto ==
    /\ WidgetsShown
    /\ \E p \in {"All"} \cup Unique(df, "Descricao"), raises \in MayRaise :
          /\ p # sel.produto
          /\ Rerun([sel EXCEPT !.produto = p], raises)

ChangeFarmacia ==
    /\ WidgetsShown
    /\ \E g \in {"All"} \cup Unique(df, "Grupo"), raises \in MayRaise :
          /\ g # sel.farmacia
          /\ Rerun([sel EXCEPT !.farmacia = g], raises)

\* date_input returned two dates (lines 137-138).
ChangeDateRange ==
    /\ WidgetsShown
    /\ \E a \in MinDate(df)..MaxDate(df), b \in MinDate(df)..MaxDate(df), raises \in MayRaise :
          /\ a <= b
          /\ <<a, b>> # <<sel.start_date, sel.end_date>>
          /\ Rerun([sel EXCEPT !.start_date = a, !.end_date = b], raises)

\* date_input returned a single date, used as start and end (line 141).
SelectSingleDate ==
    /\ WidgetsShown
    /\ \E d \in MinDate(df)..MaxDate(df), raises \in MayRaise :
          /\ <<d, d>> # <<sel.start_date, sel.end_date>>
          /\ Rerun([sel EXCEPT !.start_date = d, !.end_date = d], raises)

Next == FirstRun \/ ChangeProduto \/ ChangeFarmacia \/ ChangeDateRange \/ SelectSingleDate

Spec == Init /\ [][Next]_vars

---------------------------------------------------------------------------
(* calculate_cumsums called directly on a frame *)

Frames(n) == { RenameColumns(RawRows(t)) : t \in Tables(n) }

InitCumsums ==
    /\ pkl = [schema |-> "no_file", rows |-> <<>>]
    /\ df = <<>>
    /\ sel = NoSel
    /\ arg \in Frames(MaxRows)
    /\ heap = <<>>
    /\ outcome = "start"
    /\ drawn = {}

Call ==
    /\ heap = <<>>
    /\ heap' = calculate_cumsums(arg)
    /\ outcome' = "returned"
    /\ UNCHANGED <<pkl, df, sel, arg, drawn>>

\* The same rows in another order: rows i and i+1 exchanged, the frame built
\* anew (index labels are the new positions), and the function called again.
Reorder ==
    /\ heap # <<>>
    /\ \E i \in 1..(Len(arg) - 1) :
          LET swapped == [k \in 1..Len(arg) |->
                            [ (IF k = i THEN arg[i + 1]
                               ELSE IF k = i + 1 THEN arg[i]
                               ELSE arg[k]) EXCEPT !.index = k ]]
          IN  /\ arg' = swapped
              /\ heap' = calculate_cumsums(swapped)
    /\ UNCHANGED <<pkl, df, sel, outcome, drawn>>

NextCumsums == Call \/ Reorder

SpecCumsums == InitCumsums /\ [][NextCumsums]_vars

---------------------------------------------------------------------------
(* Vocabulary of the properties *)

\* calculate_cumsums returned: all seven frame objects exist.
Called == Len(heap) = RefRet

Ret == heap[RefRet]

RowsOf(frame) == { frame[i] : i \in 1..Len(frame) }

\* Position of the row labelled idx in the frame handed to the call.
ArgPos(idx) == CHOOSE i \in 1..Len(arg) : arg[i].index = idx

RECURSIVE SumSet(_, _)
\* Sum of a column over a set of rows.
SumSet(S, col) ==
    IF S = {} THEN 0
    ELSE LET r == CHOOSE x \in S : TRUE
         IN  r[col] + SumSet(S \ {r}, col)

OriginalColumns == {"index", "Grupo", "Descricao", "SellIn", "SellOut", "Diferenca", "mes_ano_dt"}

CumulativeColumns ==
    {"EstoqueTotalPorProduto", "EstoquePorGrupo", "SellInPorGrupo", "SellOutPorGrupo",
     "EstoquePorProdutoEGrupo"}

\* The five passes: the frame object of the pass, its group key, the column
\* it accumulates and the column it writes.
Passes ==
    { [ref |-> RefPorProduto, key |-> <<"Descricao">>, src |-> "Diferenca",
       col |-> "EstoqueTotalPorProduto"],
      [ref |-> RefPorGrupo, key |-> <<"Grupo">>, src |-> "Diferenca",
       col |-> "EstoquePorGrupo"],
      [ref |-> RefSellIn, key |-> <<"Grupo">>, src |-> "SellIn",
       col |-> "SellInPorGrupo"],
      [ref |-> RefSellOut, key |-> <<"Grupo">>, src |-> "SellOut",
       col |-> "SellOutPorGrupo"],
      [ref |-> RefRet, key |-> <<"Descricao", "Grupo">>, src |-> "Diferenca",
       col |-> "EstoquePorProdutoEGrupo"] }

\* The rows of the input in the partition of r.
Partition(r, key) == { q \in RowsOf(arg) : SameKey(q, r, key) }

\* q is an input row of an earlier period than r, or of r's period and not
\* after r in the input.
AtOrBeforeInInput(q, r) ==
    \/ q.mes_ano_dt < r.mes_ano_dt
    \/ q.mes_ano_dt = r.mes_ano_dt /\ ArgPos(q.index) <= ArgPos(r.index)

\* The same, rows of one period being taken by 'Descricao' first, as the
\* product pass leaves them.
AtOrBeforeByProduto(q, r) ==
    \/ q.mes_ano_dt < r.mes_ano_dt
    \/ /\ q.mes_ano_dt = r.mes_ano_dt
       /\ \/ StrOrd[q.Descricao] < StrOrd[r.Descricao]
          \/ q.Descricao = r.Descricao /\ ArgPos(q.index) <= ArgPos(r.index)

---------------------------------------------------------------------------
(* C1 *)

\* C1 as stated: every balance column of every returned row is the sum of
\* 'Diferenca' over ALL input rows of the row's partition whose period is
\* not later than the row's.
C1_BalanceIsSumUpToPeriod ==
    Called =>
        \A r \in RowsOf(Ret) :
            /\ r.EstoqueTotalPorProduto =
                 SumSet({ q \in Partition(r, <<"Descricao">>) : q.mes_ano_dt <= r.mes_ano_dt },
                        "Diferenca")
            /\ r.EstoquePorGrupo =
                 SumSet({ q \in Partition(r, <<"Grupo">>) : q.mes_ano_dt <= r.mes_ano_dt },
                        "Diferenca")
            /\ r.EstoquePorProdutoEGrupo =
                 SumSet({ q \in Partition(r, <<"Descricao", "Grupo">>) :
                            q.mes_ano_dt <= r.mes_ano_dt }, "Diferenca")

\* C1 amended: every balance column of every returned row is the sum of
\* 'Diferenca' over the input rows of the row's partition of an earlier
\* period, plus those of the row's own period that the pass places at or
\* before it: in input order for the product and the product-and-group
\* balance, by 'Descricao' and then input order for the group balance.  It
\* is the sum over all rows up to the period exactly for the row placed last
\* among the rows of its partition and period.
C1_BalanceIsRunningSum ==
    Called =>
        \A r \in RowsOf(Ret) :
            /\ r.EstoqueTotalPorProduto =
                 SumSet({ q \in Partition(r, <<"Descricao">>) : AtOrBeforeInInput(q, r) },
                        "Diferenca")
            /\ r.EstoquePorGrupo =
                 SumSet({ q \in Partition(r, <<"Grupo">>) : AtOrBeforeByProduto(q, r) },
                        "Diferenca")
            /\ r.EstoquePorProdutoEGrupo =
                 SumSet({ q \in Partition(r, <<"Descricao", "Grupo">>) :
                            AtOrBeforeInInput(q, r) }, "Diferenca")

\* Two rows of one product share a period and carry different balances, and
\* a third row of that product belongs to an earlier period.
C1_Witness ==
    /\ Called
    /\ \E r \in RowsOf(Ret), q \in RowsOf(Ret), e \in RowsOf(Ret) :
          /\ r.index # q.index
          /\ r.Descricao = q.Descricao /\ e.Descricao = r.Descricao
          /\ r.mes_ano_dt = q.mes_ano_dt /\ e.mes_ano_dt < r.mes_ano_dt
          /\ r.EstoqueTotalPorProduto # q.EstoqueTotalPorProduto

---------------------------------------------------------------------------
(* C2 *)

NaturalKey == <<"Descricao", "Grupo", "mes_ano_dt">>

KeysUnique(frame) ==
    \A i \in 1..Len(frame), j \in 1..Len(frame) :
        i # j => ~SameKey(frame[i], frame[j], NaturalKey)

\* No two rows of one product share a period.
NoProductTies(frame) ==
    \A i \in 1..Len(frame), j \in 1..Len(frame) :
        i # j => ~SameKey(frame[i], frame[j], <<"Descricao", "mes_ano_dt">>)

\* The row of the same natural key has the same value in the columns cols
\* before and after a step.
SameValues(cols) ==
    \A r \in RowsOf(heap[RefRet]), q \in RowsOf(heap'[RefRet]) :
        SameKey(r, q, NaturalKey) => \A c \in cols : r[c] = q[c]

\* C2 as stated: calling again on the same uniquely keyed rows in another
\* order gives every row the same value in all five cumulative columns.
C2_OrderIndependentAllColumns ==
    [][(Called /\ Called' /\ KeysUnique(arg)) => SameValues(CumulativeColumns)]_vars

\* C2 amended: calling again on the same uniquely keyed rows in another
\* order gives every row the same 'Estoque por Grupo', 'Sell-in por Grupo',
\* 'Sell-out por Grupo' and 'Estoque por Produto e Grupo'; 'Estoque Total
\* por Produto' is the same when no two rows of one product share a period.
C2_OrderIndependentGroupColumns ==
    [][(Called /\ Called' /\ KeysUnique(arg)) =>
          /\ SameValues(CumulativeColumns \ {"EstoqueTotalPorProduto"})
          /\ NoProductTies(arg) => SameValues({"EstoqueTotalPorProduto"})]_vars

\* A uniquely keyed frame of three rows, two of them of one group and one
\* period, has been computed in two orders.
C2_Witness ==
    /\ Called
    /\ KeysUnique(arg)
    /\ Len(arg) >= 3
    /\ outcome = "returned"
    /\ \E i \in 1..Len(arg), j \in 1..Len(arg) :
          /\ i < j
          /\ SameKey(arg[i], arg[j], ByGrupo)
          /\ StrOrd[arg[j].Descricao] < StrOrd[arg[i].Descricao]

---------------------------------------------------------------------------
(* C3 *)

\* The value row idx gets when the pass (sort by `by`, cumulative sum of src
\* per `key`) is run alone on the input.
OwnPassValue(idx, by, key, src) ==
    LET f == sort_values(arg, by)
        s == GroupbyCumsum(f, key, src)
        i == CHOOSE k \in 1..Len(f) : f[k].index = idx
    IN  s[i]

\* C3: every cumulative column returned has, for every row, the value that
\* its own pass alone gives on the original input.
C3_PassesIndependent ==
    Called =>
        \A r \in RowsOf(Ret) :
            /\ r.EstoqueTotalPorProduto = OwnPassValue(r.index, ByProduto, <<"Descricao">>, "Diferenca")
            /\ r.EstoquePorGrupo = OwnPassValue(r.index, ByGrupo, <<"Grupo">>, "Diferenca")
            /\ r.SellInPorGrupo = OwnPassValue(r.index, ByGrupo, <<"Grupo">>, "SellIn")
            /\ r.SellOutPorGrupo = OwnPassValue(r.index, ByGrupo, <<"Grupo">>, "SellOut")
            /\ r.EstoquePorProdutoEGrupo =
                 OwnPassValue(r.index, ByProdutoGrupo, <<"Descricao", "Grupo">>, "Diferenca")

---------------------------------------------------------------------------
(* C4 *)

Project(r) == [c \in OriginalColumns |-> r[c]]

\* C4: after the call the caller's frame is what it was; the frame returned
\* has as many rows, the same rows on the original columns, and the five
\* cumulative columns added.
C4_InputUntouchedRowsKept ==
    Called =>
        /\ heap[RefArg] = arg
        /\ Len(Ret) = Len(arg)
        /\ { Project(r) : r \in RowsOf(Ret) } = RowsOf(arg)
        /\ \A r \in RowsOf(Ret) : DOMAIN r = OriginalColumns \cup CumulativeColumns
        /\ \A i \in 1..Len(arg) : DOMAIN arg[i] = OriginalColumns

\* A call on three rows that returned them in another order.
C4_Witness ==
    /\ Called
    /\ Len(arg) >= 3
    /\ \E i \in 1..Len(arg) : Project(Ret[i]) # arg[i]

---------------------------------------------------------------------------
(* C5 *)

\* C5: in every pass, the last row of each partition in the pass's order
\* belongs to the partition's last period and carries the sum of the
\* accumulated column over the whole partition.
C5_LastRowCarriesPartitionTotal ==
    Called =>
        \A p \in Passes :
            LET f == heap[p.ref]
            IN  \A i \in 1..Len(f) :
                    (\A j \in (i + 1)..Len(f) : ~SameKey(f[j], f[i], p.key)) =>
                        /\ f[i][p.col] = SumSet(Partition(f[i], p.key), p.src)
                        /\ Ret[CHOOSE k \in 1..Len(Ret) : Ret[k].index = f[i].index][p.col]
                             = SumSet(Partition(f[i], p.key), p.src)
                        /\ \A q \in Partition(f[i], p.key) : q.mes_ano_dt <= f[i].mes_ano_dt

\* A group of two rows with a total that neither row has alone, beside a row
\* of another group.
C5_Witness ==
    /\ Called
    /\ \E r \in RowsOf(Ret), q \in RowsOf(Ret), o \in RowsOf(Ret) :
          /\ r.index # q.index
          /\ r.Grupo = q.Grupo /\ o.Grupo # r.Grupo
          /\ r.Diferenca # 0 /\ q.Diferenca # 0
          /\ r.EstoquePorGrupo = r.Diferenca + q.Diferenca

---------------------------------------------------------------------------
(* C9 *)

\* C9: in every pass, along the rows of a partition whose accumulated values
\* are all >= 0, taken in the pass's order, the period never decreases and
\* neither does the cumulative column.
C9_NonDecreasing ==
    Called =>
        \A p \in Passes :
            LET f == heap[p.ref]
            IN  \A i \in 1..Len(f), j \in 1..Len(f) :
                    ( /\ i < j
                      /\ SameKey(f[i], f[j], p.key)
                      /\ \A q \in Partition(f[i], p.key) : q[p.src] >= 0 ) =>
                        /\ f[i].mes_ano_dt <= f[j].mes_ano_dt
                        /\ f[i][p.col] <= f[j][p.col]

\* A group whose differences are all positive, with a balance that grows
\* from one period to the next.
C9_Witness ==
    /\ Called
    /\ \E i \in 1..Len(heap[RefPorGrupo]), j \in 1..Len(heap[RefPorGrupo]) :
          LET f == heap[RefPorGrupo]
          IN  /\ i < j
              /\ f[i].Grupo = f[j].Grupo
              /\ f[i].mes_ano_dt < f[j].mes_ano_dt
              /\ \A q \in Partition(f[i], <<"Grupo">>) : q.Diferenca > 0
              /\ f[i].EstoquePorGrupo < f[j].EstoquePorGrupo

---------------------------------------------------------------------------
(* C6 *)

\* The row satisfies the current selection.
Matches(r, s) ==
    /\ s.farmacia = "All" \/ r.Grupo = s.farmacia
    /\ s.produto = "All" \/ r.Descricao = s.produto
    /\ s.start_date <= r.mes_ano_dt
    /\ r.mes_ano_dt <= s.end_date

\* The rows of the base table that satisfy the current selection.
Matching == { r \in RowsOf(df) : Matches(r, sel) }

\* The matching rows of r's partition of an earlier period, or of r's period
\* and not after r in the base table.
UpToInBase(r, key) ==
    { q \in Matching :
        /\ SameKey(q, r, key)
        /\ \/ q.mes_ano_dt < r.mes_ano_dt
           \/ q.mes_ano_dt = r.mes_ano_dt /\ q.index <= r.index }

\* The same, rows of one period being taken by 'Descricao' first.
UpToInBaseByProduto(r, key) ==
    { q \in Matching :
        /\ SameKey(q, r, key)
        /\ \/ q.mes_ano_dt < r.mes_ano_dt
           \/ /\ q.mes_ano_dt = r.mes_ano_dt
              /\ \/ StrOrd[q.Descricao] < StrOrd[r.Descricao]
                 \/ q.Descricao = r.Descricao /\ q.index <= r.index }

\* C6: after any sequence of filter changes the base table is the table
\* loaded, the frame computed on holds exactly the base rows that match the
\* current selection, and every balance is a running sum over those rows
\* alone, starting from zero at the first of them.
C6_BalancesFromCurrentSelection ==
    /\ outcome # "start" => df = load_data(pkl).frame
    /\ outcome \notin {"start", "no_data"} =>
          /\ arg = SelectSeq(df, LAMBDA r : Matches(r, sel))
          /\ (outcome = "no_match") <=> (Matching = {})
    /\ Called =>
          /\ { Project(r) : r \in RowsOf(Ret) } = Matching
          /\ Len(Ret) = Cardinality(Matching)
          /\ \A r \in RowsOf(Ret) :
                /\ r.EstoqueTotalPorProduto = SumSet(UpToInBase(r, <<"Descricao">>), "Diferenca")
                /\ r.EstoquePorGrupo = SumSet(UpToInBaseByProduto(r, <<"Grupo">>), "Diferenca")
                /\ r.SellInPorGrupo = SumSet(UpToInBaseByProduto(r, <<"Grupo">>), "SellIn")
                /\ r.SellOutPorGrupo = SumSet(UpToInBaseByProduto(r, <<"Grupo">>), "SellOut")
                /\ r.EstoquePorProdutoEGrupo =
                     SumSet(UpToInBase(r, <<"Descricao", "Grupo">>), "Diferenca")

\* A group is selected and the period narrowed to the last month: a row of
\* the selected group lies before the period, a row of the other group in
\* it, and the chart of the remaining row has been drawn.
C6_Witness ==
    /\ outcome = "rendered"
    /\ sel.farmacia # "All"
    /\ sel.start_date > MinDate(df)
    /\ "chart_grupo" \in drawn
    /\ Len(arg) = 1
    /\ \E q \in RowsOf(df) : q.Grupo = sel.farmacia /\ q.mes_ano_dt < sel.start_date

---------------------------------------------------------------------------
(* C7 *)

\* The run ended in an exception that nothing catches.
ErrorState == outcome \in {"NameError", "TypeError"}

---------------------------------------------------------------------------
(* C8 *)

\* C8: a table with a missing or wrongly typed required column is reported
\* as an error and main stops before calculate_cumsums is called and before
\* anything is drawn.
C8_BadSchemaStopsMain ==
    (outcome # "start" /\ pkl.schema \in {"missing_column", "bad_mes_ano", "bad_type"}) =>
        /\ outcome = "no_data"
        /\ "error_load" \in drawn
        /\ heap = <<>>
        /\ drawn \cap {"chart_grupo", "chart_produto_grupo", "chart_geral", "table"} = {}

---------------------------------------------------------------------------
(* C10 *)

\* C10: with product and group both at 'All' and a non-empty filtered set,
\* the run ends in the NameError of the chart branch: no chart and no table
\* is drawn, and the frame computed has none of the 'Geral' series.  No
\* other selection ends that way.
C10_GlobalBranchRaises ==
    /\ (Called /\ sel.produto = "All" /\ sel.farmacia = "All") =>
          /\ outcome = "NameError"
          /\ drawn = {}
          /\ \A r \in RowsOf(Ret) :
                DOMAIN r \cap {"EstoqueGeral", "SellInGeral", "SellOutPorGeral"} = {}
    /\ outcome = "NameError" =>
          Called /\ sel.produto = "All" /\ sel.farmacia = "All"

\* The default selection on a loaded table of two rows.
C10_Witness ==
    /\ outcome = "NameError"
    /\ Len(arg) >= 2
    /\ sel = DefaultSel(df)

====
